---------------------------- MODULE Spec2Model ----------------------------
(***************************************************************************)
(* Model of the classification engine (MetricType::try_from,               *)
(* src/src/metric/metric_type.rs) and of the per-subsystem poll loop       *)
(* (poll_metrics!::poll, src/src/metrics/mod.rs) of elasticsearch_exporter.*)
(***************************************************************************)
EXTENDS Integers, Sequences, FiniteSets, TLC

VARIABLES
    metric,     \* the RawMetric <<key, value>> handed to try_from
    result,     \* None, or Some(the Result try_from returned)
    now,        \* the runtime's clock (tokio::time::Instant::now())
    pc,         \* per subsystem: where its poll task stands
    start,      \* per subsystem: the jittered instant of the first tick
    deadline,   \* per subsystem: the instant the interval's next tick is due
    ticks,      \* per subsystem: how many ticks interval.tick() has delivered
    timer,      \* per subsystem: Some(the instant start_timer() was called)
    batch,      \* per subsystem: what metrics(&exporter) returned this cycle
    idx,        \* per subsystem: the next element of batch the for loop takes
    collected,  \* per subsystem: the metrics handed to collect this cycle
    forwarded,  \* per subsystem: the MetricTypes collect handed on this cycle
    sinkFailed, \* per subsystem: whether the sink failed on a metric this cycle
    histogram,  \* per subsystem: how many durations observe_duration recorded
    lastFetchFailed \* per subsystem: whether the previous cycle's fetch failed

classifyVars == <<metric, result>>
pollVars ==
    <<now, pc, start, deadline, ticks, timer, batch, idx, collected, forwarded,
      sinkFailed, histogram, lastFetchFailed>>
vars == <<classifyVars, pollVars>>

(***************************************************************************)
(* Machine integers.  The source computes on i64 and u64; TLC's integers   *)
(* are 32 bits wide, so words are Bits wide here and every boundary value  *)
(* is written relative to Bits.                                            *)
(***************************************************************************)
Bits == 8

RECURSIVE Pow(_, _)
Pow(b, e) == IF e = 0 THEN 1 ELSE b * Pow(b, e - 1)

I64Max == Pow(2, Bits - 1) - 1
I64Min == 0 - Pow(2, Bits - 1)
U64Max == Pow(2, Bits) - 1

(***************************************************************************)
(* Option and Result.                                                      *)
(***************************************************************************)
None == <<>>
Some(v) == <<v>>
unwrap_or(o, d) == IF o = None THEN d ELSE o[1]

Ok(v) == [ok |-> TRUE, val |-> v]
Err(kind, raw) == [ok |-> FALSE, err |-> kind, raw |-> raw]

(***************************************************************************)
(* serde_json::Value.  A Number is PosInt(u64), NegInt(i64) or a finite    *)
(* Float; a float is the decimal mant / 10^scale with mant not divisible   *)
(* by 10 unless scale = 0.                                                 *)
(***************************************************************************)
Bool(b) == [type |-> "Bool", b |-> b]
Null == [type |-> "Null"]
PosInt(n) == [type |-> "Number", repr |-> "PosInt", n |-> n]
NegInt(n) == [type |-> "Number", repr |-> "NegInt", n |-> n]
F64(m, s) == [mant |-> m, scale |-> s]
Float(m, s) == [type |-> "Number", repr |-> "Float", f |-> F64(m, s)]
String(s) == [type |-> "String", s |-> s]
Array == [type |-> "Array"]
Object == [type |-> "Object"]

is_boolean(value) == value.type = "Bool"
is_null(value) == value.type = "Null"
is_number(value) == value.type = "Number"
is_i64(value) ==
    /\ value.type = "Number"
    /\ \/ value.repr = "NegInt"
       \/ value.repr = "PosInt" /\ value.n <= I64Max
is_f64(value) == value.type = "Number" /\ value.repr = "Float"
as_bool(value) == IF value.type = "Bool" THEN Some(value.b) ELSE None
as_i64(value) == IF is_i64(value) THEN Some(value.n) ELSE None
as_f64(value) ==
    IF value.type # "Number" THEN None
    ELSE IF value.repr = "Float" THEN Some(value.f)
    ELSE Some(F64(value.n, 0))
as_str(value) == IF value.type = "String" THEN Some(value.s) ELSE None


(***************************************************************************)
(* Strings are sequences of one-character strings.                         *)
(***************************************************************************)
Digits == <<"0", "1", "2", "3", "4", "5", "6", "7", "8", "9">>

IsDigit(c) == \E i \in 1..10 : Digits[i] = c
DigitVal(c) == (CHOOSE i \in 1..10 : Digits[i] = c) - 1
AllDigits(s) == \A i \in 1..Len(s) : IsDigit(s[i])

RECURSIVE DigitsValue(_)
DigitsValue(s) ==
    IF s = <<>> THEN 0
    ELSE 10 * DigitsValue(SubSeq(s, 1, Len(s) - 1)) + DigitVal(s[Len(s)])

\* str::parse::<i64>: an optional sign, then one or more decimal digits, the
\* value within the range of i64; Some(n) on success, None on a ParseIntError.
str_parse_i64(s) ==
    IF s = <<>> THEN None
    ELSE LET signed == s[1] \in {"+", "-"}
             body == IF signed THEN Tail(s) ELSE s
             n == IF s[1] = "-" THEN 0 - DigitsValue(body) ELSE DigitsValue(body)
         IN  IF body = <<>> \/ ~AllDigits(body) THEN None
             ELSE IF n < I64Min \/ n > I64Max THEN None
             ELSE Some(n)

RECURSIVE Normalize(_, _)
Normalize(m, s) ==
    IF s > 0 /\ m % 10 = 0 THEN Normalize(m \div 10, s - 1) ELSE F64(m, s)

\* str::parse::<f64>: an optional sign, digits with at most one '.', at least
\* one digit in all.  Exponents and inf/nan need letters the input alphabet
\* of this model does not hold.
str_parse_f64(s) ==
    IF s = <<>> THEN None
    ELSE LET signed == s[1] \in {"+", "-"}
             body == IF signed THEN Tail(s) ELSE s
             dots == {i \in 1..Len(body) : body[i] = "."}
             dot == IF dots = {} THEN Len(body) + 1 ELSE CHOOSE i \in dots : TRUE
             int == SubSeq(body, 1, dot - 1)
             frac == SubSeq(body, dot + 1, Len(body))
             mag == DigitsValue(int \o frac)
         IN  IF Cardinality(dots) > 1 \/ ~AllDigits(int \o frac) \/ int \o frac = <<>>
             THEN None
             ELSE Some(Normalize(IF s[1] = "-" THEN 0 - mag ELSE mag, Len(frac)))

\* str::replace("%", ""): every occurrence is removed.
replace_percent(s) == SelectSeq(s, LAMBDA c : c # "%")

(***************************************************************************)
(* MetricType                                                              *)
(***************************************************************************)
Time(millis) == [tag |-> "Time", v |-> millis]
Bytes(n) == [tag |-> "Bytes", v |-> n]
Gauge(n) == [tag |-> "Gauge", v |-> n]
GaugeF(x) == [tag |-> "GaugeF", v |-> x]
Switch(n) == [tag |-> "Switch", v |-> n]
Label(s) == [tag |-> "Label", v |-> s]
NullMetric == [tag |-> "Null", v |-> 0]

\* `n as u64` of an i64: the two's complement reading of the same word.
as_u64(n) == n % (U64Max + 1)

(***************************************************************************)
(* The key vocabularies of the two matches on metric.0                     *)
(***************************************************************************)
ByteKeys == {"size", "memory", "store", "bytes"}
TimeKeys == {"epoch", "timestamp", "date", "time", "millis", "alive"}
SwitchKeys == {"out", "value", "committed", "searchable", "compound", "throttled"}
GaugeKeys ==
    {"primaries", "min", "max", "successful", "nodes", "fetch", "order",
     "largest", "rejected", "completed", "queue", "active", "core", "tasks",
     "relo", "unassign", "init", "files", "ops", "recovered", "generation",
     "contexts", "listeners", "pri", "rep", "docs", "count", "pid",
     "compilations", "deleted", "shards", "indices", "checkpoint", "avail",
     "used", "cpu", "triggered", "evictions", "failed", "total", "current"}
FloatKeys == {"avg", "1m", "5m", "15m", "number", "percent"}
LabelKeys ==
    {"cluster", "repository", "snapshot", "stage", "uuid", "component", "master",
     "role", "uptime", "alias", "filter", "search", "flavor", "string",
     "address", "health", "build", "node", "state", "patterns", "of", "segment",
     "host", "ip", "prirep", "id", "status", "at", "for", "details", "reason",
     "port", "attr", "field", "shard", "index", "name", "type", "version",
     "jdk", "description"}

(***************************************************************************)
(* MetricType::try_from(metric), metric = <<key, value>>                   *)
(***************************************************************************)
unknown(m) == Err("UnknownValue", m[2])

\* Truncation toward zero of the decimal mant / 10^scale.
Trunc(x) ==
    IF x.mant < 0 THEN 0 - ((0 - x.mant) \div Pow(10, x.scale))
    ELSE x.mant \div Pow(10, x.scale)

\* parse_i64 as if a native number were truncated to an integer.
parse_i64_Truncating(m) ==
    LET value == m[2] IN
    IF is_number(value) THEN Ok(Trunc(unwrap_or(as_f64(value), F64(0, 0))))
    ELSE IF as_str(value) = None THEN unknown(m)
    ELSE LET parsed == str_parse_i64(as_str(value)[1])
         IN  IF parsed = None THEN Err("ParseIntFailure", value)
             ELSE Ok(parsed[1])

parse_i64(m) ==
    LET value == m[2] IN
    IF is_number(value) THEN Ok(unwrap_or(as_i64(value), 0))
    ELSE IF as_str(value) = None THEN unknown(m)
    ELSE LET parsed == str_parse_i64(as_str(value)[1])
         IN  IF parsed = None THEN Err("ParseIntFailure", value)
             ELSE Ok(parsed[1])

\* The string without one trailing '%'.
StripSuffix(s) ==
    IF s # <<>> /\ s[Len(s)] = "%" THEN SubSeq(s, 1, Len(s) - 1) ELSE s

\* parse_f64 as if only a '%' suffix were stripped.
parse_f64_SuffixOnly(m) ==
    LET value == m[2] IN
    IF is_f64(value) THEN Ok(unwrap_or(as_f64(value), F64(0, 0)))
    ELSE IF as_str(value) = None THEN unknown(m)
    ELSE LET parsed == str_parse_f64(StripSuffix(as_str(value)[1]))
         IN  IF parsed = None THEN Err("ParseFloatFailure", value)
             ELSE Ok(parsed[1])

parse_f64(m) ==
    LET value == m[2] IN
    IF is_f64(value) THEN Ok(unwrap_or(as_f64(value), F64(0, 0)))
    ELSE IF as_str(value) = None THEN unknown(m)
    ELSE LET parsed == str_parse_f64(replace_percent(as_str(value)[1]))
         IN  IF parsed = None THEN Err("ParseFloatFailure", value)
             ELSE Ok(parsed[1])

\* `Ok(MetricType::<tag>(r?))`
Wrap(r, tag) == IF r.ok THEN Ok([tag |-> tag, v |-> r.val]) ELSE r

\* Result::unwrap_or
result_unwrap_or(r, d) == IF r.ok THEN r.val ELSE d

BoolSwitch(value) == Ok(Switch(IF unwrap_or(as_bool(value), FALSE) THEN 1 ELSE 0))

LabelOf(m) ==
    IF as_str(m[2]) = None THEN unknown(m) ELSE Ok(Label(as_str(m[2])[1]))

\* FirstMatch as if its catch-all arm did not look at numbers.
FirstMatch_KeysOnly(m) ==
    LET key == m[1]
    IN  IF key \in ByteKeys THEN Some(Wrap(parse_i64(m), "Bytes"))
        ELSE IF key \in TimeKeys
        THEN Some(Ok(Time(as_u64(result_unwrap_or(parse_i64(m), 0)))))
        ELSE None

\* The first match on the key: Some(result) when it returns, None when
\* control falls through to the second match.
FirstMatch(m) ==
    LET key == m[1]
        value == m[2]
    IN  IF key \in ByteKeys THEN Some(Wrap(parse_i64(m), "Bytes"))
        ELSE IF key \in TimeKeys
        THEN Some(Ok(Time(as_u64(result_unwrap_or(parse_i64(m), 0)))))
        ELSE IF is_number(value)
        THEN IF is_i64(value) THEN Some(Wrap(parse_i64(m), "Gauge"))
             ELSE Some(Wrap(parse_f64(m), "GaugeF"))
        ELSE None

\* The second match on the key.  The catch-all arm's cfg!(debug_assertions)
\* block only prints.
SecondMatch(m) ==
    LET key == m[1]
        value == m[2]
    IN  IF key \in SwitchKeys THEN BoolSwitch(value)
        ELSE IF key = "data"
        THEN IF parse_i64(m).ok THEN Ok(Gauge(parse_i64(m).val)) ELSE LabelOf(m)
        ELSE IF key \in GaugeKeys THEN Wrap(parse_i64(m), "Gauge")
        ELSE IF key \in FloatKeys THEN Wrap(parse_f64(m), "GaugeF")
        ELSE LabelOf(m)

\* try_from as if the boolean check came after the first match on the key.
try_from_KeyFirst(m) ==
    LET value == m[2] IN
    IF is_null(value) THEN Ok(NullMetric)
    ELSE IF FirstMatch(m) # None THEN FirstMatch(m)[1]
    ELSE IF is_boolean(value) THEN BoolSwitch(value)
    ELSE SecondMatch(m)

try_from(m) ==
    LET value == m[2] IN
    IF is_boolean(value) THEN BoolSwitch(value)
    ELSE IF is_null(value) THEN Ok(NullMetric)
    ELSE IF FirstMatch(m) # None THEN FirstMatch(m)[1]
    ELSE SecondMatch(m)

(***************************************************************************)
(* Inputs of the classifier.                                               *)
(***************************************************************************)
MaxLen == 3

Alphabet == {"1", "7", ".", "%", "-", "a"}

RECURSIVE StringsUpTo(_)
StringsUpTo(n) ==
    IF n = 0 THEN {<<>>}
    ELSE LET shorter == StringsUpTo(n - 1)
         IN  shorter \cup {Append(s, c) : s \in shorter, c \in Alphabet}

Strings == StringsUpTo(MaxLen)

IntSamples == {I64Min, -1, 0, 1, 5, I64Max, I64Max + 1, U64Max}
FloatSamples == {F64(15, 1), F64(2, 0), F64(-5, 1), F64(735, 1)}

Values ==
    {Bool(TRUE), Bool(FALSE), Null, Array, Object}
    \cup {IF n < 0 THEN NegInt(n) ELSE PosInt(n) : n \in IntSamples}
    \cup {Float(x.mant, x.scale) : x \in FloatSamples}
    \cup {String(s) : s \in Strings}

Keys ==
    ByteKeys \cup TimeKeys \cup SwitchKeys \cup {"data"} \cup GaugeKeys
    \cup FloatKeys \cup LabelKeys \cup {"unlisted"}

(***************************************************************************)
(* The poll loop, one task per subsystem.                                  *)
(***************************************************************************)
Subsystems == {"_cat", "_nodes"}

PollDefaultInterval == 2
ExporterPollIntervals == [s \in {"_nodes"} |-> 1]
MaxJitter == 2
MaxTime == 3

\* options.exporter_poll_intervals.get(SUBSYSTEM)
\*     .unwrap_or(&options.exporter_poll_default_interval)
poll_interval(s) ==
    IF s \in DOMAIN ExporterPollIntervals THEN ExporterPollIntervals[s]
    ELSE PollDefaultInterval

\* Exporter::random_delay(), in milliseconds
RandomDelays == 0..(MaxJitter - 1)

\* What a Fetcher may return: a metric that classifies, one that does not.
Classifiable == <<"bytes", String(<<"1", "7">>)>>
Unclassifiable == <<"bytes", String(<<"a">>)>>

Batches ==
    {<<>>,
     <<Classifiable>>,
     <<Classifiable, Unclassifiable, Classifiable>>}

\* What the poll tasks have done when none has passed its first tick.
PollFresh ==
    /\ now = 0
    /\ pc = [s \in Subsystems |-> "tick"]
    /\ ticks = [s \in Subsystems |-> 0]
    /\ timer = [s \in Subsystems |-> None]
    /\ batch = [s \in Subsystems |-> <<>>]
    /\ idx = [s \in Subsystems |-> 1]
    /\ collected = [s \in Subsystems |-> <<>>]
    /\ forwarded = [s \in Subsystems |-> <<>>]
    /\ sinkFailed = [s \in Subsystems |-> FALSE]
    /\ histogram = [s \in Subsystems |-> 0]
    /\ lastFetchFailed = [s \in Subsystems |-> FALSE]

PollIdle ==
    /\ PollFresh
    /\ start = [s \in Subsystems |-> 0]
    /\ deadline = start

\* poll() up to the loop, every task spawned at instant 0: start is
\* Instant::now() + random_delay(), and interval_at(start, poll_interval)
\* makes its first tick due at start.
PollInit ==
    /\ metric = <<"unlisted", Null>>
    /\ result = None
    /\ PollFresh
    /\ start \in [Subsystems -> RandomDelays]
    /\ deadline = start

\* Time passes.  A task waiting in interval.tick() is woken at its deadline,
\* so the clock does not pass the deadline of a task that waits there; how
\* long a fetch or the loop over its batch takes is not constrained.
Advance ==
    /\ now < MaxTime
    /\ \A s \in Subsystems : pc[s] = "tick" => now < deadline[s]
    /\ now' = now + 1
    /\ UNCHANGED <<classifyVars, pc, start, deadline, ticks, timer, batch, idx,
                   collected, forwarded, sinkFailed, histogram, lastFetchFailed>>

\* next_deadline as if a late tick put the next one a full period after the
\* instant it fired.
next_deadline_Delay(s, due) == now + poll_interval(s)

\* The instant the interval's next tick is due once the tick due at `due` has
\* been delivered: one period later, whatever the clock says (tokio's Interval
\* delivers missed ticks as a burst).
next_deadline(s, due) == due + poll_interval(s)

\* interval.tick().await returns once its deadline has come; start_timer().
TickWhen(s, ready) ==
    /\ ready
    /\ deadline[s] <= now
    /\ deadline' = [deadline EXCEPT ![s] = next_deadline(s, deadline[s])]
    /\ ticks' = [ticks EXCEPT ![s] = ticks[s] + 1]
    /\ timer' = [timer EXCEPT ![s] = Some(now)]
    /\ pc' = [pc EXCEPT ![s] = "fetch"]
    /\ UNCHANGED <<classifyVars, now, start, batch, idx, collected, forwarded,
                   sinkFailed, histogram, lastFetchFailed>>

\* AtLoopHead as if a tick could be taken while a cycle is still running.
AtLoopHead_Anywhere(s) == TRUE

\* The task awaits the tick only at the head of the loop.
AtLoopHead(s) == pc[s] = "tick"

Tick(s) == TickWhen(s, AtLoopHead(s))

\* metrics(&exporter).await returns Ok(metrics).
FetchOk(s) ==
    /\ pc[s] = "fetch"
    /\ \E b \in Batches : batch' = [batch EXCEPT ![s] = b]
    /\ idx' = [idx EXCEPT ![s] = 1]
    /\ pc' = [pc EXCEPT ![s] = "emit"]
    /\ UNCHANGED <<classifyVars, now, start, deadline, ticks, timer, collected,
                   forwarded, sinkFailed, histogram, lastFetchFailed>>

\* metrics(&exporter).await returns Err(e), which is logged.
FetchErr(s) ==
    /\ pc[s] = "fetch"
    /\ pc' = [pc EXCEPT ![s] = "failed"]
    /\ UNCHANGED <<classifyVars, now, start, deadline, ticks, timer, batch, idx,
                   collected, forwarded, sinkFailed, histogram, lastFetchFailed>>

\* Collection::collect: the metric is classified; an unclassifiable one is
\* logged and skipped, a classified one is handed to the sink, which may fail.
collect(m, sinkOk) ==
    LET r == try_from(m)
    IN  [forward |-> IF r.ok THEN <<r.val>> ELSE <<>>,
         ok |-> r.ok /\ sinkOk]

\* loop_next as if the result of collect were propagated out of the loop.
loop_next_StopOnErr(i, n, ok) == IF ok THEN i + 1 ELSE n + 1

\* Where the for loop over n elements stands after the collect of element i
\* returned: `let _ =` drops the result and the loop takes the next element.
loop_next(i, n, ok) == i + 1

\* One turn of `for metric in metrics.into_iter()`.
Emit(s) ==
    /\ pc[s] = "emit"
    /\ idx[s] <= Len(batch[s])
    /\ \E sinkOk \in BOOLEAN :
         LET m == batch[s][idx[s]]
             c == collect(m, sinkOk)
         IN  /\ collected' = [collected EXCEPT ![s] = Append(@, m)]
             /\ forwarded' = [forwarded EXCEPT ![s] = @ \o c.forward]
             /\ sinkFailed' = [sinkFailed EXCEPT ![s] = @ \/ (c.forward # <<>> /\ ~c.ok)]
             /\ idx' = [idx EXCEPT ![s] = loop_next(idx[s], Len(batch[s]), c.ok)]
    /\ UNCHANGED <<classifyVars, now, pc, start, deadline, ticks, timer, batch,
                   histogram, lastFetchFailed>>

\* after_cycle as if the Err arm left the loop.
after_cycle_ExitOnErr(fetchFailed) == IF fetchFailed THEN "exited" ELSE "tick"

\* Where the task goes at the end of the loop body: `loop` has no exit.
after_cycle(fetchFailed) == "tick"

\* The match is over: timer.observe_duration(), and the loop body ends.
Observe(s) ==
    /\ \/ pc[s] = "emit" /\ idx[s] > Len(batch[s])
       \/ pc[s] = "failed"
    /\ histogram' = [histogram EXCEPT ![s] = @ + 1]
    /\ timer' = [timer EXCEPT ![s] = None]
    /\ lastFetchFailed' = [lastFetchFailed EXCEPT ![s] = (pc[s] = "failed")]
    /\ batch' = [batch EXCEPT ![s] = <<>>]
    /\ idx' = [idx EXCEPT ![s] = 1]
    /\ collected' = [collected EXCEPT ![s] = <<>>]
    /\ forwarded' = [forwarded EXCEPT ![s] = <<>>]
    /\ sinkFailed' = [sinkFailed EXCEPT ![s] = FALSE]
    /\ pc' = [pc EXCEPT ![s] = after_cycle(pc[s] = "failed")]
    /\ UNCHANGED <<classifyVars, now, start, deadline, ticks>>

PollNext ==
    \/ Advance
    \/ \E s \in Subsystems : Tick(s)
    \/ \E s \in Subsystems : FetchOk(s)
    \/ \E s \in Subsystems : FetchErr(s)
    \/ \E s \in Subsystems : Emit(s)
    \/ \E s \in Subsystems : Observe(s)

PollSpec == PollInit /\ [][PollNext]_vars

\* The clock keeps running, and the runtime keeps scheduling a task that is
\* ready to leave the loop body or to take a tick that is due.
Fairness ==
    /\ WF_vars(Advance)
    /\ \A s \in Subsystems : WF_vars(Tick(s)) /\ WF_vars(Observe(s))

FairPollSpec == PollSpec /\ Fairness

ClassifyInit ==
    /\ metric \in Keys \X Values
    /\ result = None
    /\ PollIdle

Classify ==
    /\ result = None
    /\ result' = Some(try_from(metric))
    /\ UNCHANGED <<metric, pollVars>>

ClassifyNext == Classify

ClassifySpec == ClassifyInit /\ [][ClassifyNext]_vars


(***************************************************************************)
(* Claims about the classifier, checked under ClassifySpec.                *)
(***************************************************************************)
Classified == result # None
key == metric[1]
value == metric[2]
res == result[1]
PlainScalar == value.type \in {"Number", "String"}

\* C1: for every key, a boolean value classifies as Switch(1) for true and
\* Switch(0) for false, and never as an error.
C1_BooleanWins ==
    Classified /\ is_boolean(value)
        => res = Ok(Switch(IF value.b THEN 1 ELSE 0))

C1_Witness ==
    /\ Classified
    /\ key = "bytes"
    /\ value = Bool(TRUE)
    /\ res = Ok(Switch(1))

\* C2 as claimed: under a label key a string v classifies as Label(v) and
\* every other (non-boolean, non-null) value fails with UnknownValue.
C2_Original ==
    Classified /\ key \in LabelKeys /\ ~is_boolean(value) /\ ~is_null(value)
        => IF value.type = "String" THEN res = Ok(Label(value.s))
           ELSE ~res.ok /\ res.err = "UnknownValue"

\* C2 amended: under a label key a string v classifies as Label(v); a number
\* is classified by the number rule, which comes first (an integer n of the
\* i64 range as Gauge(n), a float x as GaugeF(x)); UnknownValue is returned
\* only for values that are neither strings, i64 integers nor floats.
C2_LabelKeys ==
    Classified /\ key \in LabelKeys /\ ~is_boolean(value) /\ ~is_null(value)
        => /\ value.type = "String" => res = Ok(Label(value.s))
           /\ is_i64(value) => res = Ok(Gauge(value.n))
           /\ is_f64(value) => res = Ok(GaugeF(value.f))
           /\ ~res.ok => /\ res.err = "UnknownValue"
                         /\ value.type # "String"
                         /\ ~is_i64(value)
                         /\ ~is_f64(value)
           /\ value.type \in {"Array", "Object"} => ~res.ok

C2_Witness ==
    /\ Classified
    /\ key = "cluster"
    /\ value = PosInt(5)
    /\ res = Ok(Gauge(5))

\* The integer a string denotes when it is a decimal integer of the i64 range.
IsDecimal(s) == str_parse_i64(s) # None

InI64(n) == I64Min <= n /\ n <= I64Max

\* C3 as claimed: under a byte key a native number n classifies as
\* Bytes(trunc(n)) (read for the numbers whose truncation an i64 holds), a
\* decimal-integer string as Bytes of that integer, and any other string
\* fails with ParseIntFailure.
C3_Original ==
    Classified /\ key \in ByteKeys /\ PlainScalar
        => IF is_number(value)
           THEN InI64(Trunc(as_f64(value)[1]))
                    => res = Ok(Bytes(Trunc(as_f64(value)[1])))
           ELSE IF IsDecimal(value.s)
           THEN res = Ok(Bytes(str_parse_i64(value.s)[1]))
           ELSE ~res.ok /\ res.err = "ParseIntFailure"

\* C3 amended: under a byte key a native number classifies as Bytes(n) when
\* it is an integer n of the i64 range and as Bytes(0) otherwise (a float, an
\* integer above i64::MAX); a string that parses as an i64 classifies as
\* Bytes of it, and any other string fails with ParseIntFailure.
C3_ByteKeys ==
    Classified /\ key \in ByteKeys /\ PlainScalar
        => IF is_number(value)
           THEN res = Ok(Bytes(IF is_i64(value) THEN value.n ELSE 0))
           ELSE IF IsDecimal(value.s)
           THEN res = Ok(Bytes(str_parse_i64(value.s)[1]))
           ELSE ~res.ok /\ res.err = "ParseIntFailure"

C3_Witness ==
    /\ Classified
    /\ key = "bytes"
    /\ value = Float(15, 1)
    /\ res = Ok(Bytes(0))

\* C4 as claimed: under a time key every non-boolean, non-null scalar
\* classifies without error as Time(d), d the parsed integer when the integer
\* parse succeeds (negative integers included) and 0 when it fails.
C4_Original ==
    Classified /\ key \in TimeKeys /\ PlainScalar
        => /\ res.ok
           /\ res.val = Time(IF parse_i64(metric).ok THEN parse_i64(metric).val ELSE 0)

\* C5 as claimed: outside the byte and time keys every JSON number classifies
\* without error, as Gauge(n) when it is an integer and as GaugeF(x) when it
\* is a float.
C5_Original ==
    Classified /\ key \notin ByteKeys \cup TimeKeys /\ is_number(value)
        => /\ res.ok
           /\ res.val.tag \in {"Gauge", "GaugeF"}
           /\ is_i64(value) => res.val = Gauge(value.n)
           /\ is_f64(value) => res.val = GaugeF(value.f)

RECURSIVE WithoutPercent(_)
WithoutPercent(s) ==
    IF s = <<>> THEN <<>>
    ELSE IF s[1] = "%" THEN WithoutPercent(Tail(s))
    ELSE <<s[1]>> \o WithoutPercent(Tail(s))

\* What C6 expects of a string s once `stripped` is the text handed to the
\* float parser.
FloatOf(stripped) ==
    IF str_parse_f64(stripped) # None
    THEN res = Ok(GaugeF(str_parse_f64(stripped)[1]))
    ELSE ~res.ok /\ res.err = "ParseFloatFailure"

\* C6 as claimed: under a float-gauge key a string classifies as GaugeF(x)
\* exactly when it parses as the float x once a trailing '%' is removed; a
\* '%' elsewhere is kept and makes the parse fail.
C6_Original ==
    Classified /\ key \in FloatKeys /\ value.type = "String"
        => FloatOf(StripSuffix(value.s))

\* C6 amended: under a float-gauge key a string classifies as GaugeF(x)
\* exactly when it parses as the float x once every '%' in it, wherever it
\* stands, is removed, and fails with ParseFloatFailure otherwise.
C6_FloatKeys ==
    Classified /\ key \in FloatKeys /\ value.type = "String"
        => FloatOf(WithoutPercent(value.s))

C6_Witness ==
    /\ Classified
    /\ key = "percent"
    /\ value = String(<<"7", "%", "1">>)
    /\ res = Ok(GaugeF(F64(71, 0)))


(***************************************************************************)
(* Claims about the poll loop.                                             *)
(***************************************************************************)
InFlight(s) == pc[s] \in {"fetch", "emit", "failed"}

\* C7: a fetch failure ends only its own cycle: nothing is collected or
\* forwarded, the task goes nowhere but back to the loop head (no retry, no
\* exit), the next fetch belongs to the next cycle, and when the next tick's
\* due instant lies within the clock's horizon that fetch is eventually
\* invoked.  Checked under FairPollSpec.
C7_FetchFailureIsolated ==
    /\ [](\A s \in Subsystems :
            pc[s] = "failed" => collected[s] = <<>> /\ forwarded[s] = <<>>)
    /\ [][\A s \in Subsystems :
            /\ pc[s] = "failed" /\ pc'[s] # "failed"
                 => pc'[s] = "tick" /\ ticks'[s] = ticks[s]
            /\ pc[s] = "tick" /\ pc'[s] = "fetch" => ticks'[s] = ticks[s] + 1]_vars
    /\ \A s \in Subsystems :
         (pc[s] = "failed" /\ deadline[s] <= MaxTime)
             ~> (pc[s] = "fetch" /\ lastFetchFailed[s])

C7_Witness ==
    \E s \in Subsystems :
        /\ lastFetchFailed[s]
        /\ pc[s] = "fetch"
        /\ ticks[s] >= 2

Classifies(m) == try_from(m).ok
ClassifiableIn(q) == {i \in 1..Len(q) : Classifies(q[i])}

\* C8: within a successful fetch the metrics of the batch are handed to
\* collect one by one in order, whatever collect returned for the earlier
\* ones, so that at the end of the loop every metric has been collected and
\* exactly the classifiable ones have been forwarded.
C8_BatchProcessed ==
    \A s \in Subsystems :
        pc[s] = "emit"
            => /\ idx[s] <= Len(batch[s]) + 1
               /\ collected[s] = SubSeq(batch[s], 1, idx[s] - 1)
               /\ Len(forwarded[s]) = Cardinality(ClassifiableIn(collected[s]))
               /\ idx[s] > Len(batch[s])
                    => /\ collected[s] = batch[s]
                       /\ Len(forwarded[s]) = Cardinality(ClassifiableIn(batch[s]))

C8_Witness ==
    \E s \in Subsystems :
        /\ pc[s] = "emit"
        /\ idx[s] > Len(batch[s])
        /\ batch[s] = <<Classifiable, Unclassifiable, Classifiable>>
        /\ sinkFailed[s]
        /\ forwarded[s] = <<Bytes(17), Bytes(17)>>

\* C9 as claimed: however long a cycle overran, once a tick has fired the
\* following tick is not already overdue: at most one missed tick is
\* outstanding, and cycles never run back to back to catch up.
C9_Original ==
    \A s \in Subsystems : timer[s] # None => deadline[s] >= timer[s][1]

\* C9 amended: the timer is fixed-rate and skips nothing: the tick after the
\* n-th is due at start + n * pollInterval, no tick fires before it is due,
\* and a tick that is due fires as soon as the task is back at the loop head,
\* so the ticks missed during an overrun fire back to back.
C9_FixedRateBurst ==
    \A s \in Subsystems :
        /\ deadline[s] = start[s] + ticks[s] * poll_interval(s)
        /\ timer[s] # None => timer[s][1] >= deadline[s] - poll_interval(s)
        /\ pc[s] = "tick" /\ deadline[s] <= now => ENABLED Tick(s)

C9_Witness ==
    \E s \in Subsystems :
        /\ timer[s] # None
        /\ deadline[s] < timer[s][1]
        /\ ticks[s] >= 2

\* C10: each subsystem has at most one cycle in flight, a fetch starts only
\* when every earlier cycle of the subsystem has been observed and its
\* classify/emit phase is over, and whether a task can take its tick, get its
\* fetch result or end its cycle depends on no other task.
C10_OneCycleInFlight ==
    \A s \in Subsystems :
        /\ ticks[s] - histogram[s] = (IF InFlight(s) THEN 1 ELSE 0)
        /\ (timer[s] # None) = InFlight(s)
        /\ pc[s] = "fetch" => collected[s] = <<>> /\ forwarded[s] = <<>>
        /\ pc[s] = "fetch" => ENABLED FetchOk(s) /\ ENABLED FetchErr(s)
        /\ pc[s] = "emit" /\ idx[s] > Len(batch[s]) => ENABLED Observe(s)
        /\ pc[s] = "failed" => ENABLED Observe(s)
        /\ pc[s] = "tick" /\ deadline[s] <= now => ENABLED Tick(s)

C10_Witness ==
    /\ pc["_cat"] = "fetch"
    /\ ticks["_cat"] = 1
    /\ pc["_nodes"] = "emit"
    /\ ticks["_nodes"] >= 3
    /\ lastFetchFailed["_nodes"]

=============================================================================
